---- MODULE Spec2Model ----
(***************************************************************************)
(* Model of promptflow/batch/_batch_inputs_processor.py:                   *)
(* BatchInputsProcessor (default-mapping completion, line merge) and the   *)
(* module function apply_inputs_mapping.                                   *)
(*                                                                         *)
(* Python values are records of one shape [type, n, s, d]:                 *)
(*   type "int"      n is the integer                                      *)
(*   type "str"      s is the string, a sequence of symbols                *)
(*   type "dict"     d is a function from keys (strings) to values         *)
(*   type "NoneType"                                                       *)
(* A string is a sequence of symbols: the characters the code tells apart  *)
(* ("$", "{", "}", ".", "\n") and maximal runs of other characters         *)
(* ("data", "line_number").  An insertion-ordered dict (input_dict,        *)
(* tmp_dict, the mappings) is a sequence of [k, v] items with distinct k.  *)
(***************************************************************************)
EXTENDS Integers, Sequences, FiniteSets, TLC

VARIABLES
    input_dict,                 \* merge: the argument of _merge_input_dicts_by_line
    base_list,                  \* merge: outcome on the input before a record was dropped
    merged_list,                \* merge: outcome on the current input_dict
    dropped,                    \* merge: which record was dropped, if any
    inputs,                     \* mapping: the composite line given to apply_inputs_mapping
    inputs_mapping,             \* mapping: the mapping given to apply_inputs_mapping
    applied,                    \* mapping: outcome of apply_inputs_mapping
    _flow_inputs,               \* processor: self._flow_inputs
    _default_inputs_mapping,    \* processor: self._default_inputs_mapping
    calls,                      \* processor: number of process_batch_inputs calls made
    call,                       \* processor: arguments of the last call
    effective,                  \* processor: mapping returned by the last completion
    outcome                     \* processor: outcome of the last call

vars == <<input_dict, base_list, merged_list, dropped, inputs, inputs_mapping,
          applied, _flow_inputs, _default_inputs_mapping, calls, call,
          effective, outcome>>

mergeVars == <<input_dict, base_list, merged_list, dropped>>
mappingVars == <<inputs, inputs_mapping, applied>>
processorVars == <<_flow_inputs, _default_inputs_mapping, calls, call, effective, outcome>>

---------------------------------------------------------------------------
(* Python values *)

EmptyDict == <<>>

NoneVal == [type |-> "NoneType", n |-> 0, s |-> <<>>, d |-> EmptyDict]

IntVal(i) == [type |-> "int", n |-> i, s |-> <<>>, d |-> EmptyDict]

StrVal(str) == [type |-> "str", n |-> 0, s |-> str, d |-> EmptyDict]

DictVal(f) == [type |-> "dict", n |-> 0, s |-> <<>>, d |-> f]

\* bool(value)
Truthy(v) ==
    CASE v.type = "int" -> v.n # 0
      [] v.type = "str" -> v.s # <<>>
      [] v.type = "dict" -> DOMAIN v.d # {}
      [] OTHER -> FALSE

LINE_NUMBER_KEY == <<"line_number">>

---------------------------------------------------------------------------
(* Insertion-ordered dicts *)

Keys(dict) == {dict[p].k : p \in 1..Len(dict)}

KeyList(dict) == [p \in 1..Len(dict) |-> dict[p].k]

ValueList(dict) == [p \in 1..Len(dict) |-> dict[p].v]

PosOf(dict, key) == CHOOSE p \in 1..Len(dict) : dict[p].k = key

Get(dict, key) == dict[PosOf(dict, key)].v

\* dict[key] = value: a present key keeps its place, a new key goes last
Put(dict, key, value) ==
    IF key \in Keys(dict)
    THEN [dict EXCEPT ![PosOf(dict, key)].v = value]
    ELSE Append(dict, [k |-> key, v |-> value])

\* del dict[key], for a key that is present
Del(dict, key) ==
    LET p == PosOf(dict, key)
    IN  SubSeq(dict, 1, p - 1) \o SubSeq(dict, p + 1, Len(dict))

\* dict.update(other)
RECURSIVE Update(_, _)
Update(dict, other) ==
    IF other = <<>> THEN dict
    ELSE Update(Put(dict, other[1].k, other[1].v), Tail(other))

\* the dict as a function, for comparisons that ignore the order of the items
AsFunction(dict) == [key \in Keys(dict) |-> Get(dict, key)]

---------------------------------------------------------------------------
(* Strings: str.split("."), ".".join(...), re.search(r"^\${([^{}]+)}$", s) *)

\* the part of str before its first "." (all of it when there is none)
RECURSIVE UpToDot(_)
UpToDot(str) ==
    IF str = <<>> \/ str[1] = "." THEN <<>>
    ELSE <<str[1]>> \o UpToDot(Tail(str))

\* pattern.split(".")
RECURSIVE Split(_)
Split(str) ==
    LET head == UpToDot(str)
    IN  IF Len(head) = Len(str) THEN <<head>>
        ELSE <<head>> \o Split(SubSeq(str, Len(head) + 2, Len(str)))

\* ".".join(parts)
RECURSIVE Join(_)
Join(parts) ==
    IF parts = <<>> THEN <<>>
    ELSE IF Len(parts) = 1 THEN parts[1]
    ELSE parts[1] \o <<".">> \o Join(Tail(parts))

\* re.search(r"^\${([^{}]+)}$", map_value): "$" also matches before a final "\n"
MatchReference(str) ==
    LET core == IF str # <<>> /\ str[Len(str)] = "\n"
                THEN SubSeq(str, 1, Len(str) - 1) ELSE str
        inner == SubSeq(core, 3, Len(core) - 1)
        ok == /\ Len(core) >= 4
              /\ core[1] = "$"
              /\ core[2] = "{"
              /\ core[Len(core)] = "}"
              /\ \A p \in 1..Len(inner) : inner[p] \notin {"{", "}"}
    IN  [matched |-> ok, group1 |-> IF ok THEN inner ELSE <<>>]

---------------------------------------------------------------------------
(* BatchInputsProcessor._merge_input_dicts_by_line *)

\* the datasets of input_dict that are empty lists, in iteration order
IsEmptyList(item) == item.v = <<>>

\* not any(LINE_NUMBER_KEY in one_item for one_item in list_of_one_input)
WithoutLineNumber(item) ==
    \A j \in 1..Len(item.v) : LINE_NUMBER_KEY \notin DOMAIN item.v[j]

all_lengths_without_line_number(dict) ==
    LET kept == SelectSeq(dict, WithoutLineNumber)
    IN  [p \in 1..Len(kept) |-> [k |-> kept[p].k, v |-> Len(kept[p].v)]]

\* mutant of PutLine: a new index goes first in tmp_dict
PutLineFirst(tmp_dict, index, input_key, one_line_item) ==
    IF index \in Keys(tmp_dict)
    THEN Put(tmp_dict, index,
             (input_key :> DictVal(one_line_item)) @@ Get(tmp_dict, index))
    ELSE <<[k |-> index, v |-> (input_key :> DictVal(one_line_item))]>> \o tmp_dict

\* tmp_dict[index][input_key] = one_line_item, creating tmp_dict[index] when absent
PutLine(tmp_dict, index, input_key, one_line_item) ==
    IF index \in Keys(tmp_dict)
    THEN Put(tmp_dict, index,
             (input_key :> DictVal(one_line_item)) @@ Get(tmp_dict, index))
    ELSE Put(tmp_dict, index, (input_key :> DictVal(one_line_item)))

\* mutant of CollectOneInput: a keyed record is filed by its position too
RECURSIVE CollectOneInputByPosition(_, _, _, _, _)
CollectOneInputByPosition(tmp_dict, input_key, list_of_one_input, positional, j) ==
    IF j > Len(list_of_one_input) THEN tmp_dict
    ELSE CollectOneInputByPosition(
             PutLine(tmp_dict, j - 1, input_key, list_of_one_input[j]),
             input_key, list_of_one_input, positional, j + 1)

\* the loop over the records of one dataset, from record j on
RECURSIVE CollectOneInput(_, _, _, _, _)
CollectOneInput(tmp_dict, input_key, list_of_one_input, positional, j) ==
    IF j > Len(list_of_one_input) THEN tmp_dict
    ELSE LET one_line_item == list_of_one_input[j]
             next ==
                 IF positional
                 THEN PutLine(tmp_dict, j - 1, input_key, one_line_item)
                 ELSE IF LINE_NUMBER_KEY \in DOMAIN one_line_item
                 THEN PutLine(tmp_dict, one_line_item[LINE_NUMBER_KEY].n,
                              input_key, one_line_item)
                 ELSE tmp_dict
         IN  CollectOneInput(next, input_key, list_of_one_input, positional, j + 1)

\* the loop over the datasets, from dataset p on
RECURSIVE CollectLines(_, _, _)
CollectLines(tmp_dict, dict, p) ==
    IF p > Len(dict) THEN tmp_dict
    ELSE CollectLines(
             CollectOneInput(tmp_dict, dict[p].k, dict[p].v,
                             dict[p].k \in Keys(all_lengths_without_line_number(dict)), 1),
             dict, p + 1)

\* mutant of IsCompleteLine: a line with any entry is kept
IsCompleteLineAny(values_for_one_line, dict) ==
    Cardinality(DOMAIN values_for_one_line) >= 1

\* "Missing input is not acceptable line."
IsCompleteLine(values_for_one_line, dict) ==
    Cardinality(DOMAIN values_for_one_line) = Len(dict)

\* the loop over tmp_dict.items() that builds result
RECURSIVE CompleteLines(_, _)
CompleteLines(tmp_dict, dict) ==
    IF tmp_dict = <<>> THEN <<>>
    ELSE LET line == tmp_dict[1].k
             values_for_one_line == tmp_dict[1].v
             rest == CompleteLines(Tail(tmp_dict), dict)
         IN  IF ~IsCompleteLine(values_for_one_line, dict) THEN rest
             ELSE <<(LINE_NUMBER_KEY :> IntVal(line)) @@ values_for_one_line>> \o rest

MergeError(error, input_key, lengths) ==
    [kind |-> "InputMappingError", error |-> error, input_key |-> input_key,
     lengths |-> lengths, lines |-> <<>>]

_merge_input_dicts_by_line(dict) ==
    LET empty == SelectSeq(dict, IsEmptyList)
        lengths == all_lengths_without_line_number(dict)
    IN  IF empty # <<>>
        THEN MergeError("empty_list", empty[1].k, <<>>)
        ELSE IF Cardinality({lengths[p].v : p \in 1..Len(lengths)}) > 1
        THEN MergeError("not_aligned", <<>>, lengths)
        ELSE [kind |-> "ok", error |-> "", input_key |-> <<>>, lengths |-> <<>>,
              lines |-> CompleteLines(CollectLines(<<>>, dict, 1), dict)]

---------------------------------------------------------------------------
(* Inputs of the merge: up to Len(DatasetKeys) datasets of up to MaxRecs    *)
(* records; a record carries line_number (0..MaxLine) or not, and a field   *)
(* "answer" that tells the records of the input apart.                      *)

MaxRecs == 2

MaxLine == 2

DATA == <<"data">>

BASELINE == <<"baseline">>

ANSWER == <<"answer">>

DatasetKeys == <<DATA, BASELINE>>

NoLine == -1

LineOptions == {NoLine} \cup 0..MaxLine

OptionLists == UNION {[1..len -> LineOptions] : len \in 0..MaxRecs}

MakeRecord(p, j, option) ==
    IF option = NoLine
    THEN (ANSWER :> IntVal(10 * p + j))
    ELSE (ANSWER :> IntVal(10 * p + j)) @@ (LINE_NUMBER_KEY :> IntVal(option))

MakeInputDict(choice) ==
    [p \in 1..Len(choice) |->
        [k |-> DatasetKeys[p],
         v |-> [j \in 1..Len(choice[p]) |-> MakeRecord(p, j, choice[p][j])]]]

MergeInputs ==
    {MakeInputDict(choice) :
        choice \in UNION {[1..n -> OptionLists] : n \in 1..Len(DatasetKeys)}}

NotRun ==
    [kind |-> "none", error |-> "", input_key |-> <<>>, lengths |-> <<>>,
     lines |-> <<>>]

NotDropped == [done |-> FALSE, key |-> <<>>, index |-> NoLine, only |-> FALSE,
               keyed |-> FALSE, positional |-> FALSE]

Idle == <<>>

MergeIdle ==
    /\ input_dict = Idle
    /\ base_list = NotRun
    /\ merged_list = NotRun
    /\ dropped = NotDropped

MappingIdle ==
    /\ inputs = Idle
    /\ inputs_mapping = Idle
    /\ applied = [kind |-> "none", result |-> Idle, notfound |-> Idle, examined |-> 0]

ProcessorIdle ==
    /\ _flow_inputs = Idle
    /\ _default_inputs_mapping = Idle
    /\ calls = 0
    /\ call = [input_dicts |-> Idle, inputs_mapping |-> [none |-> TRUE, items |-> Idle]]
    /\ effective = [produced |-> FALSE, mapping |-> Idle]
    /\ outcome = [kind |-> "none", error |-> "", input_key |-> Idle, lengths |-> Idle,
                  notfound |-> Idle, records |-> Idle]

InitMerge ==
    /\ input_dict \in MergeInputs
    /\ base_list = NotRun
    /\ merged_list = NotRun
    /\ dropped = NotDropped
    /\ MappingIdle
    /\ ProcessorIdle

\* a call of _merge_input_dicts_by_line(input_dict)
Merge ==
    /\ merged_list = NotRun
    /\ merged_list' = _merge_input_dicts_by_line(input_dict)
    /\ UNCHANGED <<input_dict, base_list, dropped>>
    /\ UNCHANGED <<mappingVars, processorVars>>

RemoveAt(list, j) == SubSeq(list, 1, j - 1) \o SubSeq(list, j + 1, Len(list))

\* the index at which record j of dataset item contributes (NoLine: nowhere)
IndexOf(item, j) ==
    IF WithoutLineNumber(item) THEN j - 1
    ELSE IF LINE_NUMBER_KEY \in DOMAIN item.v[j] THEN item.v[j][LINE_NUMBER_KEY].n
    ELSE NoLine

\* every record of the dataset has line_number
AllKeyed(item) == \A j \in 1..Len(item.v) : LINE_NUMBER_KEY \in DOMAIN item.v[j]

\* the caller drops record j of dataset p, which stays non-empty, and merges again
DropEntry(p, j) ==
    /\ merged_list.kind = "ok"
    /\ ~dropped.done
    /\ Len(input_dict[p].v) >= 2
    /\ input_dict' = [input_dict EXCEPT ![p].v = RemoveAt(@, j)]
    /\ base_list' = merged_list
    /\ merged_list' = _merge_input_dicts_by_line(input_dict')
    /\ dropped' = [done |-> TRUE, key |-> input_dict[p].k,
                   index |-> IndexOf(input_dict[p], j),
                   only |-> \A i \in 1..Len(input_dict[p].v) :
                                i # j => IndexOf(input_dict[p], i) # IndexOf(input_dict[p], j),
                   keyed |-> AllKeyed(input_dict[p]),
                   positional |-> WithoutLineNumber(input_dict[p])]
    /\ UNCHANGED <<mappingVars, processorVars>>

NextMerge ==
    \/ Merge
    \/ \E p \in 1..Len(input_dict) : \E j \in 1..Len(input_dict[p].v) : DropEntry(p, j)

SpecMerge == InitMerge /\ [][NextMerge]_vars

---------------------------------------------------------------------------
(* apply_inputs_mapping *)

NotFound == [status |-> "notfound", value |-> NoneVal]

\* key in inputs and source in inputs[key], for pattern split at i; an entry
\* of a composite line is a record or, under line_number, an int, and
\* "source in <int>" raises TypeError
TrySplit(inp, splitted_str, i) ==
    LET key == Join(SubSeq(splitted_str, 1, i))
        source == Join(SubSeq(splitted_str, i + 1, Len(splitted_str)))
    IN  IF key \notin DOMAIN inp THEN NotFound
        ELSE IF inp[key].type # "dict" THEN [status |-> "TypeError", value |-> NoneVal]
        ELSE IF source \in DOMAIN inp[key].d
        THEN [status |-> "found", value |-> inp[key].d[source]]
        ELSE NotFound

\* mutant of FindMatch: the split with the longest key is tried first
RECURSIVE FindMatchLongestFirst(_, _, _)
FindMatchLongestFirst(inp, splitted_str, i) ==
    IF i >= Len(splitted_str) THEN NotFound
    ELSE LET try == TrySplit(inp, splitted_str, Len(splitted_str) - i)
         IN  IF try.status = "notfound"
             THEN FindMatchLongestFirst(inp, splitted_str, i + 1)
             ELSE try

\* for i in range(1, len(splitted_str)), from split i on: the first match wins
RECURSIVE FindMatch(_, _, _)
FindMatch(inp, splitted_str, i) ==
    IF i >= Len(splitted_str) THEN NotFound
    ELSE LET try == TrySplit(inp, splitted_str, i)
         IN  IF try.status = "notfound" THEN FindMatch(inp, splitted_str, i + 1)
             ELSE try

\* mutant of IsReservedKey: line_number is mapped like any other target
IsReservedKeyNever(map_to_key) == FALSE

\* key configuration the loop ignores
IsReservedKey(map_to_key) == map_to_key = LINE_NUMBER_KEY

\* the loop over inputs_mapping.items(), from item p on
RECURSIVE MapItems(_, _, _, _, _)
MapItems(inp, mapping, p, result, notfound_mapping_relations) ==
    IF p > Len(mapping)
    THEN [kind |-> "done", result |-> result,
          notfound |-> notfound_mapping_relations, examined |-> Len(mapping)]
    ELSE LET map_to_key == mapping[p].k
             map_value == mapping[p].v
             match == MatchReference(map_value.s)
             found == FindMatch(inp, Split(match.group1), 1)
         IN  IF IsReservedKey(map_to_key)
             THEN MapItems(inp, mapping, p + 1, result, notfound_mapping_relations)
             ELSE IF map_value.type # "str"
             THEN MapItems(inp, mapping, p + 1, (map_to_key :> map_value) @@ result,
                           notfound_mapping_relations)
             ELSE IF ~match.matched
             THEN MapItems(inp, mapping, p + 1, (map_to_key :> map_value) @@ result,
                           notfound_mapping_relations)
             ELSE IF found.status = "TypeError"
             THEN [kind |-> "TypeError", result |-> result,
                   notfound |-> notfound_mapping_relations, examined |-> p]
             ELSE IF found.status = "found"
             THEN MapItems(inp, mapping, p + 1, (map_to_key :> found.value) @@ result,
                           notfound_mapping_relations)
             ELSE MapItems(inp, mapping, p + 1, result,
                           Append(notfound_mapping_relations, map_value.s))

\* result[LINE_NUMBER_KEY] = inputs[LINE_NUMBER_KEY] when the line carries one
WithLineNumber(inp, result) ==
    IF LINE_NUMBER_KEY \in DOMAIN inp
    THEN (LINE_NUMBER_KEY :> inp[LINE_NUMBER_KEY]) @@ result
    ELSE result

\* kind "ok": result is returned; otherwise the exception kind is raised and
\* result is the local dict, which is lost
apply_inputs_mapping(inp, mapping) ==
    LET loop == MapItems(inp, mapping, 1, EmptyDict, <<>>)
    IN  IF loop.kind = "TypeError" THEN loop
        ELSE IF loop.notfound # <<>>
        THEN [loop EXCEPT !.kind = "InputMappingError"]
        ELSE [loop EXCEPT !.kind = "ok", !.result = WithLineNumber(inp, loop.result)]

---------------------------------------------------------------------------
(* Inputs of apply_inputs_mapping: a composite line with entries "data" and *)
(* possibly "data.nested" and line_number, and a mapping of up to          *)
(* MaxTargets targets.                                                     *)

MaxTargets == 2

DATA_NESTED == <<"data", ".", "nested">>

FIELD == <<"field">>

NESTED_FIELD == <<"nested", ".", "field">>

QUESTION == <<"question">>

TOPIC == <<"topic">>

Reference(path) == StrVal(<<"$", "{">> \o path \o <<"}">>)

MapValues ==
    { IntVal(7),
      StrVal(<<"gpt">>),
      StrVal(<<"$", "{", "}">>),
      StrVal(<<"$", "{", "data", ".", "{", "field", "}", "}">>),
      StrVal(<<"$", "{", "data", ".", "field", "}", "\n">>),
      Reference(<<"data">>),
      Reference(<<"data", ".", "field">>),
      Reference(<<"data", ".", "nested", ".", "field">>),
      Reference(<<"missing", ".", "field">>),
      Reference(<<"line_number", ".", "field">>) }

Targets == {QUESTION, TOPIC, LINE_NUMBER_KEY}

\* mappings of n items with distinct targets
MappingsOf(n) ==
    {[p \in 1..n |-> [k |-> ks[p], v |-> vs[p]]] :
        ks \in {ks \in [1..n -> Targets] : \A p, q \in 1..n : p # q => ks[p] # ks[q]},
        vs \in [1..n -> MapValues]}

Mappings == UNION {MappingsOf(n) : n \in 0..MaxTargets}

\* the record of "data": its fields are told apart by their values
DataRecord(fields) == [f \in fields |-> IF f = FIELD THEN IntVal(1) ELSE IntVal(2)]

NestedRecord(fields) == [f \in fields |-> IntVal(3)]

CompositeLines ==
    {(DATA :> DictVal(DataRecord(fields))) @@ nested @@ line :
        fields \in SUBSET {FIELD, NESTED_FIELD},
        nested \in {EmptyDict} \cup
                   {(DATA_NESTED :> DictVal(NestedRecord(fs))) : fs \in SUBSET {FIELD}},
        line \in {EmptyDict, (LINE_NUMBER_KEY :> IntVal(0))}}

NotApplied == [kind |-> "none", result |-> EmptyDict, notfound |-> <<>>, examined |-> 0]

InitMapping ==
    /\ inputs \in CompositeLines
    /\ inputs_mapping \in Mappings
    /\ applied = NotApplied
    /\ MergeIdle
    /\ ProcessorIdle

\* a call of apply_inputs_mapping(inputs, inputs_mapping)
Apply ==
    /\ applied = NotApplied
    /\ applied' = apply_inputs_mapping(inputs, inputs_mapping)
    /\ UNCHANGED <<inputs, inputs_mapping>>
    /\ UNCHANGED <<mergeVars, processorVars>>

NextMapping == Apply

SpecMapping == InitMapping /\ [][NextMapping]_vars

---------------------------------------------------------------------------
(* BatchInputsProcessor: __init__, process_batch_inputs and the methods it  *)
(* calls.  A mapping argument is [none, items]: None, or a dict.  A flow    *)
(* input definition is [default]: its default value, NoneVal when it        *)
(* declares none.                                                           *)

\* self._default_inputs_mapping = {key: f"${{data.{key}}}" for key in flow_inputs}
DefaultInputsMapping(flow_inputs) ==
    [p \in 1..Len(flow_inputs) |->
        [k |-> flow_inputs[p].k,
         v |-> Reference(DATA \o <<".">> \o flow_inputs[p].k)]]

\* "value and value.default": a FlowInputDefinition is an object, always true
HasDefault(definition) == Truthy(definition.default)

\* the loop over self._flow_inputs.items(), from item p on; "del" of a key
\* that is absent raises KeyError, and what was deleted before stays deleted
RECURSIVE DeleteDefaults(_, _, _)
DeleteDefaults(result_mapping, flow_inputs, p) ==
    IF p > Len(flow_inputs) THEN [kind |-> "ok", mapping |-> result_mapping]
    ELSE IF ~HasDefault(flow_inputs[p].v)
    THEN DeleteDefaults(result_mapping, flow_inputs, p + 1)
    ELSE IF flow_inputs[p].k \notin Keys(result_mapping)
    THEN [kind |-> "KeyError", mapping |-> result_mapping]
    ELSE DeleteDefaults(Del(result_mapping, flow_inputs[p].k), flow_inputs, p + 1)

\* result_mapping is self._default_inputs_mapping itself, not a copy: mapping
\* is both the value returned and the new self._default_inputs_mapping
_complete_inputs_mapping_by_default_value(default_mapping, flow_inputs, mapping) ==
    LET given == IF mapping.none THEN <<>> ELSE mapping.items
        deleted == DeleteDefaults(default_mapping, flow_inputs, 1)
    IN  IF deleted.kind = "KeyError" THEN deleted
        ELSE [kind |-> "ok", mapping |-> Update(deleted.mapping, given)]

Raise(kind, error, input_key, lengths, notfound) ==
    [kind |-> kind, error |-> error, input_key |-> input_key, lengths |-> lengths,
     notfound |-> notfound, records |-> <<>>]

\* [apply_inputs_mapping(item, inputs_mapping) for item in merged_list], from
\* line q on: the first line that fails ends the call
RECURSIVE ApplyLines(_, _, _, _)
ApplyLines(lines, mapping, q, result) ==
    IF q > Len(lines)
    THEN [kind |-> "ok", error |-> "", input_key |-> <<>>, lengths |-> <<>>,
          notfound |-> <<>>, records |-> result]
    ELSE LET one == apply_inputs_mapping(lines[q], mapping)
         IN  IF one.kind = "ok"
             THEN ApplyLines(lines, mapping, q + 1, Append(result, one.result))
             ELSE IF one.kind = "TypeError"
             THEN Raise("TypeError", "", <<>>, <<>>, <<>>)
             ELSE Raise("InputMappingError", "not_found", <<>>, <<>>, one.notfound)

_apply_inputs_mapping_for_all_lines(dict, mapping) ==
    LET merged == _merge_input_dicts_by_line(dict)
    IN  IF mapping.none
        THEN Raise("UnexpectedError", "", <<>>, <<>>, <<>>)
        ELSE IF merged.kind # "ok"
        THEN Raise(merged.kind, merged.error, merged.input_key, merged.lengths, <<>>)
        ELSE IF Len(merged.lines) = 0
        THEN Raise("InputMappingError", "no_complete_line", <<>>, <<>>, <<>>)
        ELSE ApplyLines(merged.lines, mapping.items, 1, <<>>)

NotProduced == [produced |-> FALSE, mapping |-> <<>>]

\* _validate_and_apply_inputs_mapping: the outcome, the mapping the completion
\* returned and the new self._default_inputs_mapping
_validate_and_apply_inputs_mapping(default_mapping, flow_inputs, dict, mapping) ==
    LET completed == _complete_inputs_mapping_by_default_value(
                         default_mapping, flow_inputs, mapping)
    IN  IF completed.kind = "KeyError"
        THEN [outcome |-> Raise("KeyError", "", <<>>, <<>>, <<>>),
              effective |-> NotProduced,
              default_mapping |-> completed.mapping]
        ELSE [outcome |-> _apply_inputs_mapping_for_all_lines(
                              dict, [none |-> FALSE, items |-> completed.mapping]),
              effective |-> [produced |-> TRUE, mapping |-> completed.mapping],
              default_mapping |-> completed.mapping]

\* all(len(data) == 0 for data in input_dicts.values())
NoInputData(dict) == \A p \in 1..Len(dict) : Len(dict[p].v) = 0

\* input_dicts is what _resolve_input_data loaded from input_dirs
process_batch_inputs(default_mapping, flow_inputs, input_dicts, mapping) ==
    IF NoInputData(input_dicts)
    THEN [outcome |-> Raise("EmptyInputsData", "", <<>>, <<>>, <<>>),
          effective |-> NotProduced,
          default_mapping |-> default_mapping]
    ELSE _validate_and_apply_inputs_mapping(default_mapping, flow_inputs,
                                            input_dicts, mapping)

---------------------------------------------------------------------------
(* Processors and calls: the flow inputs "question" and "topic" with or     *)
(* without a default value; up to MaxCalls calls on one processor, each on  *)
(* up to Len(DatasetKeys) loaded datasets and an explicit mapping or None.  *)

MaxCalls == 2

Definition(default) == [default |-> default]

FlowInputs ==
    {<<[k |-> QUESTION, v |-> Definition(defaults[1])],
       [k |-> TOPIC, v |-> Definition(defaults[2])]>> :
        defaults \in {<<NoneVal, NoneVal>>,
                      <<NoneVal, StrVal(<<"gpt">>)>>,
                      <<NoneVal, IntVal(0)>>,
                      <<StrVal(<<"gpt">>), StrVal(<<"gpt">>)>>}}

\* a loaded record: the fields question, topic and answer, and line_number or not
MakeRow(p, j, option) ==
    MakeRecord(p, j, option)
        @@ (QUESTION :> IntVal(100 + 10 * p + j)) @@ (TOPIC :> IntVal(200 + 10 * p + j))

RowOptions == {<<>>, <<NoLine>>, <<NoLine, NoLine>>, <<1, 0>>, <<1>>}

MakeInputDicts(choice) ==
    [p \in 1..Len(choice) |->
        [k |-> DatasetKeys[p],
         v |-> [j \in 1..Len(choice[p]) |-> MakeRow(p, j, choice[p][j])]]]

LoadedInputs ==
    {MakeInputDicts(choice) :
        choice \in UNION {[1..n -> RowOptions] : n \in 0..Len(DatasetKeys)}}

NoMapping == [none |-> TRUE, items |-> <<>>]

Explicit(items) == [none |-> FALSE, items |-> items]

ExplicitMappings ==
    { NoMapping,
      Explicit(<<>>),
      Explicit(<<[k |-> TOPIC, v |-> StrVal(<<"gpt">>)]>>),
      Explicit(<<[k |-> QUESTION, v |-> Reference(DATA \o <<".">> \o TOPIC)],
                 [k |-> LINE_NUMBER_KEY, v |-> Reference(<<"missing", ".", "field">>)]>>),
      Explicit(<<[k |-> ANSWER, v |-> Reference(BASELINE \o <<".">> \o ANSWER)]>>),
      Explicit(<<[k |-> TOPIC, v |-> Reference(<<"line_number", ".", "field">>)]>>) }

NoCall == [input_dicts |-> <<>>, inputs_mapping |-> NoMapping]

NoOutcome == Raise("none", "", <<>>, <<>>, <<>>)

\* BatchInputsProcessor(working_dir, flow_inputs)
InitProcessor ==
    /\ _flow_inputs \in FlowInputs
    /\ _default_inputs_mapping = DefaultInputsMapping(_flow_inputs)
    /\ calls = 0
    /\ call = NoCall
    /\ effective = NotProduced
    /\ outcome = NoOutcome
    /\ MergeIdle
    /\ MappingIdle

\* a call of self.process_batch_inputs(input_dirs, inputs_mapping)
ProcessBatchInputs(input_dicts, mapping) ==
    LET done == process_batch_inputs(_default_inputs_mapping, _flow_inputs,
                                     input_dicts, mapping)
    IN  /\ calls < MaxCalls
        /\ calls' = calls + 1
        /\ call' = [input_dicts |-> input_dicts, inputs_mapping |-> mapping]
        /\ outcome' = done.outcome
        /\ effective' = done.effective
        /\ _default_inputs_mapping' = done.default_mapping
        /\ UNCHANGED _flow_inputs
        /\ UNCHANGED <<mergeVars, mappingVars>>

NextProcessor ==
    \E input_dicts \in LoadedInputs : \E mapping \in ExplicitMappings :
        ProcessBatchInputs(input_dicts, mapping)

SpecProcessor == InitProcessor /\ [][NextProcessor]_vars

---------------------------------------------------------------------------
(* Claims about the merge *)

Positional(item) == WithoutLineNumber(item)

\* every dataset is wholly positional or wholly keyed, the positional ones
\* being of one length
Uniform(dict) ==
    /\ \A p \in 1..Len(dict) : Positional(dict[p]) \/ AllKeyed(dict[p])
    /\ \A p, q \in 1..Len(dict) :
          Positional(dict[p]) /\ Positional(dict[q]) => Len(dict[p].v) = Len(dict[q].v)

\* the records dataset item contributes at index i
Contributed(item, i) ==
    {item.v[j] : j \in {j \in 1..Len(item.v) : IndexOf(item, j) = i}}

LineNumbers(lines) == [q \in 1..Len(lines) |-> lines[q][LINE_NUMBER_KEY].n]

Emitted(lines) == {lines[q][LINE_NUMBER_KEY].n : q \in 1..Len(lines)}

Indices == 0..(MaxRecs + MaxLine)

\* C1: on an input map of uniformly positional or uniformly keyed datasets, a
\* line with line_number i is emitted exactly when every dataset contributes a
\* record at index i; an emitted line holds, under each dataset's key, a record
\* that dataset contributes at i; all-positional datasets of length N give
\* exactly the lines 0..N-1.
C1_CompleteLinesExactly ==
    (merged_list.kind # "none" /\ Uniform(input_dict)) =>
        LET lines == merged_list.lines
        IN  /\ Len(lines) = Cardinality(Emitted(lines))
            /\ \A i \in Indices \cup Emitted(lines) :
                  i \in Emitted(lines) <=>
                      \A p \in 1..Len(input_dict) : Contributed(input_dict[p], i) # {}
            /\ \A q \in 1..Len(lines) : \A p \in 1..Len(input_dict) :
                  /\ input_dict[p].k \in DOMAIN lines[q]
                  /\ lines[q][input_dict[p].k].type = "dict"
                  /\ lines[q][input_dict[p].k].d
                        \in Contributed(input_dict[p], lines[q][LINE_NUMBER_KEY].n)
            /\ (\A p \in 1..Len(input_dict) : Positional(input_dict[p])) =>
                  LineNumbers(lines) = [q \in 1..Len(input_dict[1].v) |-> q - 1]

\* a positional and a keyed dataset, a complete line emitted and an index of
\* one of them left out
C1_Witness ==
    /\ merged_list.kind = "ok"
    /\ Uniform(input_dict)
    /\ Len(input_dict) = 2
    /\ Positional(input_dict[1])
    /\ ~Positional(input_dict[2])
    /\ merged_list.lines # <<>>
    /\ \E i \in Indices :
          /\ Contributed(input_dict[1], i) # {}
          /\ i \notin Emitted(merged_list.lines)

Ascending(list) == \A q \in 1..(Len(list) - 1) : list[q] < list[q + 1]

NonDescending(list) == \A q \in 1..(Len(list) - 1) : list[q] <= list[q + 1]

\* the first record of dataset item that contributes at index i
FirstAt(item, i) ==
    CHOOSE j \in 1..Len(item.v) :
        /\ IndexOf(item, j) = i
        /\ \A h \in 1..(j - 1) : IndexOf(item, h) # i

\* C2 as stated: the returned lines are in strictly ascending order of
\* line_number, for every input map.
C2_AscendingAlways ==
    merged_list.kind = "ok" => Ascending(LineNumbers(merged_list.lines))

\* C2 amended: the returned lines are in the order in which their indices first
\* occur in the first-iterated dataset, so they are strictly ascending when
\* that dataset is positional or lists its line_number values in ascending
\* order.
C2_FirstDatasetOrder ==
    merged_list.kind = "ok" =>
        LET numbers == LineNumbers(merged_list.lines)
            first == input_dict[1]
        IN  /\ \A q \in 1..Len(numbers) : Contributed(first, numbers[q]) # {}
            /\ Ascending([q \in 1..Len(numbers) |-> FirstAt(first, numbers[q])])
            /\ (Positional(first)
                \/ NonDescending([j \in 1..Len(first.v) |-> IndexOf(first, j)]))
                  => Ascending(numbers)

\* two lines emitted from a keyed first dataset that lists them out of order
C2_Witness ==
    /\ merged_list.kind = "ok"
    /\ Len(input_dict) = 2
    /\ AllKeyed(input_dict[1])
    /\ Len(merged_list.lines) = 2
    /\ ~Ascending(LineNumbers(merged_list.lines))

WithoutLine(lines, i) ==
    LET Other(line) == line[LINE_NUMBER_KEY].n # i
    IN  SelectSeq(lines, Other)

\* C3 as stated: dropping one record, at index i, from any one dataset
\* (positional or keyed) gives the former output without the line i.
C3_DropRemovesIndex ==
    (dropped.done /\ (dropped.keyed \/ dropped.positional)) =>
        /\ merged_list.kind = "ok"
        /\ merged_list.lines = WithoutLine(base_list.lines, dropped.index)

\* C3 amended: dropping from a dataset whose records all carry line_number the
\* only record with line_number i gives the former output without the line i.
C3_DropKeyedRemovesIndex ==
    (dropped.done /\ dropped.keyed /\ dropped.only) =>
        /\ merged_list.kind = "ok"
        /\ merged_list.lines = WithoutLine(base_list.lines, dropped.index)

\* a keyed record dropped whose line was emitted before, another line staying
C3_Witness ==
    /\ dropped.done
    /\ dropped.keyed
    /\ dropped.only
    /\ Len(input_dict) = 2
    /\ dropped.index \in Emitted(base_list.lines)
    /\ merged_list.lines # <<>>
    /\ merged_list.lines # base_list.lines

---------------------------------------------------------------------------
(* Claims about apply_inputs_mapping *)

\* the string is "${" inner "}", inner non-empty and free of braces
IsExactReference(str) ==
    /\ Len(str) >= 4
    /\ str[1] = "$"
    /\ str[2] = "{"
    /\ str[Len(str)] = "}"
    /\ \A p \in 3..(Len(str) - 1) : str[p] \notin {"{", "}"}

KeyAt(segments, i) == Join(SubSeq(segments, 1, i))

SourceAt(segments, i) == Join(SubSeq(segments, i + 1, Len(segments)))

\* the splits of the path at which key names an entry of the line that is a
\* record and source names a field of it
Matching(inp, segments) ==
    {i \in 1..(Len(segments) - 1) :
        /\ KeyAt(segments, i) \in DOMAIN inp
        /\ inp[KeyAt(segments, i)].type = "dict"
        /\ SourceAt(segments, i) \in DOMAIN inp[KeyAt(segments, i)].d}

Smallest(set) == CHOOSE i \in set : \A h \in set : i <= h

\* item of the mapping that the code reads as a reference, under a target
\* other than line_number
IsReferenceItem(item) ==
    /\ item.k # LINE_NUMBER_KEY
    /\ item.v.type = "str"
    /\ MatchReference(item.v.s).matched

PathOf(item) == Split(MatchReference(item.v.s).group1)

\* C6: a reference resolves to inputs[key][source] of the split with the
\* fewest key segments at which key is an entry of the line and source a field
\* of that entry, whatever later splits match; a reference of one segment
\* never resolves.
C6_ShortestKeyWins ==
    applied.kind # "none" =>
        \A p \in 1..applied.examined :
            IsReferenceItem(inputs_mapping[p]) =>
                LET target == inputs_mapping[p].k
                    segments == PathOf(inputs_mapping[p])
                    matching == Matching(inputs, segments)
                    i == Smallest(matching)
                IN  /\ matching # {} =>
                          /\ target \in DOMAIN applied.result
                          /\ applied.result[target]
                                = inputs[KeyAt(segments, i)].d[SourceAt(segments, i)]
                    /\ matching = {} => target \notin DOMAIN applied.result
                    /\ Len(segments) = 1 => target \notin DOMAIN applied.result

\* "data" has the field "nested.field" and "data.nested" the field "field":
\* ${data.nested.field} gave the value of "data"
C6_Witness ==
    /\ applied.kind = "ok"
    /\ \E p \in 1..Len(inputs_mapping) :
          /\ IsReferenceItem(inputs_mapping[p])
          /\ Cardinality(Matching(inputs, PathOf(inputs_mapping[p]))) = 2
          /\ applied.result[inputs_mapping[p].k] = inputs[DATA].d[NESTED_FIELD]
          /\ applied.result[inputs_mapping[p].k] # inputs[DATA_NESTED].d[FIELD]

IsUnresolved(item) ==
    IsReferenceItem(item) /\ Matching(inputs, PathOf(item)) = {}

\* the references of the mapping that match no split, in mapping order
Unresolved ==
    LET items == SelectSeq(inputs_mapping, IsUnresolved)
    IN  [p \in 1..Len(items) |-> items[p].v.s]

\* C7: apply_inputs_mapping fails exactly when some reference matches no
\* split; it then has examined every target and raises one InputMappingError
\* listing all the unresolved references, in mapping order, and no others.
C7_AllNotFoundInOneError ==
    applied.kind # "none" =>
        /\ applied.kind # "ok" <=> Unresolved # <<>>
        /\ applied.kind # "ok" =>
              /\ applied.kind = "InputMappingError"
              /\ applied.examined = Len(inputs_mapping)
              /\ applied.notfound = Unresolved

IsLiteral(value) == value.type # "str" \/ ~IsExactReference(value.s)

WithoutReserved(f) == [key \in DOMAIN f \ {LINE_NUMBER_KEY} |-> f[key]]

\* C9: on a mapping whose values are all literals (non-strings, or strings
\* not of the exact form ${...}) apply_inputs_mapping never fails and returns
\* the mapping itself, the reserved line_number key apart.
C9_LiteralMappingIsIdentity ==
    (applied.kind # "none"
     /\ \A p \in 1..Len(inputs_mapping) : IsLiteral(inputs_mapping[p].v)) =>
        /\ applied.kind = "ok"
        /\ WithoutReserved(applied.result) = WithoutReserved(AsFunction(inputs_mapping))

---------------------------------------------------------------------------
(* Claims about the processor *)

DeclaresDefault(definition) == definition.default # NoneVal

\* the mapping C4 describes: the explicit entries, and ${data.k} for every
\* flow input k without an explicit entry that declares no default value
ClaimedMapping(flow_inputs, mapping) ==
    LET given == IF mapping.none THEN <<>> ELSE mapping.items
        fromData == {key \in Keys(flow_inputs) \ Keys(given) :
                        ~DeclaresDefault(Get(flow_inputs, key))}
    IN  [key \in Keys(given) \cup fromData |->
            IF key \in Keys(given) THEN Get(given, key)
            ELSE Reference(DATA \o <<".">> \o key)]

\* C4: the effective mapping a newly constructed processor completes is the
\* explicit entries, plus ${data.k} for every flow input k that is not mapped
\* explicitly and declares no default value, and nothing for a flow input
\* that declares a default value, be it a falsy one.
C4_EffectiveMapping ==
    (calls = 1 /\ effective.produced) =>
        AsFunction(effective.mapping) = ClaimedMapping(_flow_inputs, call.inputs_mapping)

FreshCall ==
    process_batch_inputs(DefaultInputsMapping(_flow_inputs), _flow_inputs,
                         call.input_dicts, call.inputs_mapping)

\* C5: no call changes the processor's default mapping, and every call has
\* the outcome the same call has on a newly constructed processor.
C5_NoStateAcrossCalls ==
    calls >= 1 =>
        /\ _default_inputs_mapping = DefaultInputsMapping(_flow_inputs)
        /\ outcome = FreshCall.outcome
        /\ effective = FreshCall.effective

\* the lengths of the datasets without any line_number, by dataset key
PositionalLengths(dict) ==
    [key \in {dict[p].k : p \in {p \in 1..Len(dict) : Positional(dict[p])}} |->
        Len(Get(dict, key))]

SomeCompleteIndex(dict) ==
    \E p \in 1..Len(dict) : \E j \in 1..Len(dict[p].v) :
        /\ IndexOf(dict[p], j) # NoLine
        /\ \A q \in 1..Len(dict) : Contributed(dict[q], IndexOf(dict[p], j)) # {}

\* C8: process_batch_inputs fails with EmptyInputsData when every dataset is
\* empty, before any mapping work; else with the empty-dataset error naming an
\* empty dataset; else with the misaligned-lengths error carrying the lengths
\* of the positional datasets when these differ; else with the
\* no-complete-line error when no index has a record of every dataset; only
\* otherwise does it resolve references; it never raises UnexpectedError.
C8_ErrorPrecedence ==
    calls >= 1 =>
        LET dict == call.input_dicts
            lengths == PositionalLengths(dict)
        IN  /\ outcome.kind # "UnexpectedError"
            /\ IF \A p \in 1..Len(dict) : dict[p].v = <<>>
               THEN outcome.kind = "EmptyInputsData" /\ ~effective.produced
               ELSE IF \E p \in 1..Len(dict) : dict[p].v = <<>>
               THEN /\ outcome.kind = "InputMappingError"
                    /\ outcome.error = "empty_list"
                    /\ outcome.input_key \in Keys(dict)
                    /\ Get(dict, outcome.input_key) = <<>>
               ELSE IF Cardinality({lengths[key] : key \in DOMAIN lengths}) > 1
               THEN /\ outcome.kind = "InputMappingError"
                    /\ outcome.error = "not_aligned"
                    /\ AsFunction(outcome.lengths) = lengths
               ELSE IF ~SomeCompleteIndex(dict)
               THEN /\ outcome.kind = "InputMappingError"
                    /\ outcome.error = "no_complete_line"
               ELSE \/ outcome.kind = "ok"
                    \/ outcome.kind = "InputMappingError" /\ outcome.error = "not_found"
                    \/ outcome.kind = "TypeError"

\* the values the effective mapping holds under targets other than line_number
MappedValues(mapping) ==
    {mapping[p].v : p \in {p \in 1..Len(mapping) : mapping[p].k # LINE_NUMBER_KEY}}

\* C10: every record process_batch_inputs returns carries line_number, the
\* index of the composite line it was resolved from, at which every dataset
\* has a record; an entry of the mapping under the target line_number neither
\* sets it nor is reported as an unresolved reference.
C10_LineNumberIsIndex ==
    /\ outcome.kind = "ok" =>
          LET lines == _merge_input_dicts_by_line(call.input_dicts).lines
          IN  /\ Len(outcome.records) = Len(lines)
              /\ \A q \in 1..Len(outcome.records) :
                    /\ LINE_NUMBER_KEY \in DOMAIN outcome.records[q]
                    /\ outcome.records[q][LINE_NUMBER_KEY].type = "int"
                    /\ outcome.records[q][LINE_NUMBER_KEY] = lines[q][LINE_NUMBER_KEY]
                    /\ \A p \in 1..Len(call.input_dicts) :
                          Contributed(call.input_dicts[p],
                                      outcome.records[q][LINE_NUMBER_KEY].n) # {}
    /\ outcome.error = "not_found" =>
          \A r \in 1..Len(outcome.notfound) :
              StrVal(outcome.notfound[r]) \in MappedValues(effective.mapping)

\* two records returned from keyed data listed out of order, under a mapping
\* whose target line_number holds a reference that matches nothing
C10_Witness ==
    /\ outcome.kind = "ok"
    /\ Len(outcome.records) = 2
    /\ outcome.records[1][LINE_NUMBER_KEY] = IntVal(1)
    /\ outcome.records[2][LINE_NUMBER_KEY] = IntVal(0)
    /\ LINE_NUMBER_KEY \in Keys(effective.mapping)
    /\ Get(effective.mapping, LINE_NUMBER_KEY) = Reference(<<"missing", ".", "field">>)

====
